---- MODULE Spec2Model ----
(***************************************************************************)
(* SmartTender AI, Backend/LocalMVP: ingestion of candidate (CV) and       *)
(* requirement (tender) files, content-addressed deduplication in the      *)
(* SQLite store, the enrichment merge, and the hybrid lexical + semantic   *)
(* scorer with the ranking built from it.                                  *)
(*                                                                         *)
(* Spec       the store, the parsed-JSON artifacts and the similarity      *)
(*            index under ingest_cv_file, ingest_tender_file, sync_cv_bank *)
(*            and search_candidates.                                       *)
(* SpecScore  compute_lexical_score, semantic_distance_to_score and the    *)
(*            final score of search_candidates as functions of their       *)
(*            inputs.                                                      *)
(*                                                                         *)
(* Scores are held in hundredths (55.5 is 5550): every score of the code   *)
(* is the result of round(x, 2).  Distances are held in hundred-thousandths. *)
(***************************************************************************)
EXTENDS Integers, Sequences, FiniteSets, TLC

(* ---------------------------------------------------------------- bounds *)

\* utc_now() has a resolution of one second: the clock of the model runs
\* from 1 to MaxClock and an operation may or may not see it advance.
MaxClock == 2

\* Largest number of years of experience in a scored profile.
MaxYears == 3

\* Largest number of match runs, and largest id of a match_results row.
MaxRuns == 2
MaxResultId == 4

(* ----------------------------------------------------------- JSON values *)

\* A value of a parsed JSON payload, with the Python type the code sees.
JNull == [t |-> "null", s |-> "", n |-> 0, l |-> <<>>]
JStr(s) == [t |-> "str", s |-> s, n |-> 0, l |-> <<>>]
JInt(n) == [t |-> "int", s |-> "", n |-> n, l |-> <<>>]
JList(l) == [t |-> "list", s |-> "", n |-> 0, l |-> l]
\* json.loads of 1e400 or Infinity: the float inf.
JInfinity == [t |-> "inf", s |-> "", n |-> 0, l |-> <<>>]

\* Python truthiness, as used by `x or y` and `if x:`.
Truthy(j) ==
    CASE j.t = "null" -> FALSE
      [] j.t = "str" -> j.s # ""
      [] j.t = "int" -> j.n # 0
      [] j.t = "inf" -> TRUE
      [] OTHER -> j.l # <<>>

\* `b or a`: the operands exchanged, the second wins when it is not empty.
OrSecondFirst(a, b) == IF Truthy(b) THEN b ELSE a

\* `a if a is not None else b`: an empty value counts as given.
OrIfPresent(a, b) == IF a.t # "null" THEN a ELSE b

\* `a or b`
Or(a, b) == IF Truthy(a) THEN a ELSE b

(* --------------------------------------------------------------- strings *)

\* str.lower() on the strings of the model.
Lower(s) ==
    CASE s = "Docker" -> "docker"
      [] s = "Go" -> "go"
      [] s = "G" -> "g"
      [] s = "PhD" -> "phd"
      [] s = "Doctorate" -> "doctorate"
      [] s = "English" -> "english"
      [] s = "ENGLISH" -> "english"
      [] s = "French" -> "french"
      [] s = "Ana" -> "ana"
      [] s = "Bob" -> "bob"
      [] OTHER -> s

\* str.strip() on the strings of the model.
Strip(s) ==
    CASE s = " Go " -> "Go"
      [] s = " " -> ""
      [] OTHER -> s

\* str.title() on the strings of the model.
Title(s) ==
    CASE s = "ana" -> "Ana"
      [] s = "bob" -> "Bob"
      [] s = "french" -> "French"
      [] s = "english" -> "English"
      [] s = "ENGLISH" -> "English"
      [] OTHER -> s

\* str(n) for the integers of the model.
IntStr(n) ==
    CASE n = 5 -> "5"
      [] n = 7 -> "7"
      [] n = -2 -> "-2"
      [] OTHER -> "0"

\* str(x) of a JSON value.
PyStr(j) ==
    CASE j.t = "str" -> j.s
      [] j.t = "int" -> IntStr(j.n)
      [] j.t = "null" -> "None"
      [] j.t = "inf" -> "inf"
      [] OTHER -> "[...]"

\* Iterating a JSON value the way `for x in value` does: the items of a list,
\* the characters of a string.  An int is not iterable (TypeError).
Iterable(j) == j.t \in {"list", "str"}
Items(j) ==
    CASE j.t = "list" -> j.l
      [] j.t = "str" /\ j.s = "Go" -> <<"G", "o">>
      [] OTHER -> <<>>

Range(seq) == {seq[i] : i \in DOMAIN seq}

(* ----------------------------------------------------------------- files *)

FileNames == {"ana.pdf", "bob.txt"}
FileBytes == {"pdfA", "txtB"}
Files == [name : FileNames, bytes : FileBytes]

\* Path(name).stem and Path(name).suffix.lower()
Stem(name) == IF name = "ana.pdf" THEN "ana" ELSE "bob"
Suffix(name) == IF name = "ana.pdf" THEN ".pdf" ELSE ".txt"

slugify(value) == Lower(Strip(value))

\* sha256 of the bytes: deterministic, and injective on the bytes of the model.
file_sha256(file) == IF file.bytes = "pdfA" THEN "h-pdfA" ELSE "h-txtB"

\* extract_text: PdfReader raises on bytes that are no PDF; read_text with
\* errors="ignore" never raises and yields whatever text the bytes decode to.
ExtractRaises(file) == Suffix(file.name) = ".pdf" /\ file.bytes # "pdfA"
extract_text(file) ==
    IF Suffix(file.name) = ".pdf"
    THEN "textA"
    ELSE IF file.bytes = "txtB" THEN "textB" ELSE "textRaw"

(* ------------------------------------------------- heuristic extraction *)

\* detect_skills: the canonical skills found in a text, sorted.
detect_skills(text) ==
    CASE text = "textA" -> <<"python">>
      [] text = "textB" -> <<"python", "sql">>
      [] OTHER -> <<>>

\* detect_languages: title-cased names (the proficiency slot is always None).
detect_languages(text) == IF text = "textA" THEN <<"English">> ELSE <<>>

detect_education_level(text) == IF text = "textA" THEN "master" ELSE ""

estimate_cv_experience_years(text) == IF text = "textA" THEN 3 ELSE 0

estimate_required_experience(text) == IF text = "textA" THEN 3 ELSE 0

extract_email(text) == IF text = "textA" THEN "ana@x.io" ELSE ""

extract_phone(text) == IF text = "textB" THEN "+216 555" ELSE ""

extract_keywords(text) ==
    CASE text = "textA" -> "kwA"
      [] text = "textB" -> "kwB"
      [] OTHER -> "kwRaw"

\* The first of the first six lines that looks like a name ("" when none does).
NameLine(text) == IF text = "textA" THEN "Ana Silva" ELSE ""

\* lines[0] of the non-empty lines.
FirstLine(text) ==
    CASE text = "textA" -> "Ana Silva"
      [] text = "textB" -> "Data engineer 2024"
      [] OTHER -> "%PDF-1.4"

\* normalize_space(" ".join(lines[:5]))[:300] and lines[:8] / [:500]
CvSummary(text) ==
    CASE text = "textA" -> "sumA"
      [] text = "textB" -> "sumB"
      [] OTHER -> "sumRaw"
TenderSummary(text) ==
    CASE text = "textA" -> "tsumA"
      [] text = "textB" -> "tsumB"
      [] OTHER -> "tsumRaw"

parse_cv_text(text, source_name) ==
    [source_file |-> source_name,
     full_name |-> JStr(IF NameLine(text) # "" THEN NameLine(text)
                        ELSE Title(Stem(source_name))),
     email |-> JStr(extract_email(text)),
     phone |-> JStr(extract_phone(text)),
     professional_summary |-> JStr(CvSummary(text)),
     technical_skills |-> Range(detect_skills(text)),
     soft_skills |-> {},
     languages |-> detect_languages(text),
     experience_years |-> estimate_cv_experience_years(text),
     education_level |-> detect_education_level(text),
     keywords |-> extract_keywords(text)]

parse_tender_text(text, source_name) ==
    [source_file |-> source_name,
     title |-> JStr(FirstLine(text)),
     required_skills |-> JList(detect_skills(text)),
     preferred_skills |-> JList(<<>>),
     experience_level |-> JInt(estimate_required_experience(text)),
     languages |-> JList(detect_languages(text)),
     education_level |-> JStr(detect_education_level(text)),
     keywords |-> extract_keywords(text),
     summary |-> JStr(TenderSummary(text))]

(* ---------------------------------------------------- enrichment oracle *)

\* A parsed response of enrich_cv.  top is the type of the JSON document;
\* a key that is missing reads as None through dict.get.
NoCvFields ==
    [top |-> "dict", full_name |-> JNull, email |-> JNull, phone |-> JNull,
     professional_summary |-> JNull, technical_skills |-> JNull,
     soft_skills |-> JNull, languages |-> JNull, education_level |-> JNull,
     experience_years |-> JNull]

CvSkillOnly == [NoCvFields EXCEPT !.technical_skills = JList(<<"Docker">>)]
CvFull ==
    [NoCvFields EXCEPT !.full_name = JStr("Ana S."), !.email = JStr("as@x.io"),
                       !.professional_summary = JStr("sumLLM"),
                       !.technical_skills = JList(<<" Go ", "python", " ">>),
                       !.soft_skills = JList(<<"teamwork">>),
                       !.languages = JList(<<"french", "ENGLISH">>),
                       !.education_level = JStr("PhD"),
                       !.experience_years = JInt(7)]
CvBadYears == [NoCvFields EXCEPT !.experience_years = JStr("abc")]
CvOddValues ==
    [NoCvFields EXCEPT !.experience_years = JInt(-2),
                       !.education_level = JStr("Doctorate"),
                       !.email = JInt(7)]
CvTopList == [NoCvFields EXCEPT !.top = "list"]
CvSkillInt == [NoCvFields EXCEPT !.technical_skills = JInt(5)]
CvSkillStr == [NoCvFields EXCEPT !.technical_skills = JStr("Go")]
CvNameInt == [NoCvFields EXCEPT !.full_name = JInt(7)]

CvSkillsUntrimmed ==
    [NoCvFields EXCEPT !.technical_skills = JList(<<" Go ", "python", " ">>)]

CvEmptyStrings ==
    [NoCvFields EXCEPT !.full_name = JStr(""), !.email = JStr(""),
                       !.phone = JStr("+33 1"),
                       !.professional_summary = JStr("")]

CvLevelInt == [NoCvFields EXCEPT !.education_level = JInt(7)]
CvYearsInfinity == [NoCvFields EXCEPT !.experience_years = JInfinity]

CvPayloads ==
    {CvSkillOnly, CvFull, CvBadYears, CvOddValues, CvTopList, CvSkillInt,
     CvSkillStr, CvNameInt}

\* The payloads of the merge rules: keys given, given empty, or ill-typed.
MergeCvPayloads ==
    {CvSkillOnly, CvSkillsUntrimmed, CvFull, CvEmptyStrings, CvBadYears,
     CvOddValues, CvLevelInt, CvYearsInfinity}

\* A parsed response of enrich_tender.
NoTenderFields ==
    [top |-> "dict", title |-> JNull, required_skills |-> JNull,
     preferred_skills |-> JNull, languages |-> JNull,
     experience_level |-> JNull, education_level |-> JNull, summary |-> JNull]

TenderFull ==
    [NoTenderFields EXCEPT !.title = JStr("Title X"),
                           !.required_skills = JList(<<"docker", "python">>),
                           !.experience_level = JInt(5),
                           !.education_level = JStr("bachelor")]
TenderZeros ==
    [NoTenderFields EXCEPT !.title = JStr(""), !.required_skills = JList(<<>>),
                           !.experience_level = JInt(0),
                           !.summary = JStr("tsumLLM")]
TenderTopList == [NoTenderFields EXCEPT !.top = "list"]
TenderSkillInt == [NoTenderFields EXCEPT !.required_skills = JInt(5)]

TenderLists ==
    [NoTenderFields EXCEPT !.preferred_skills = JList(<<"aws">>),
                           !.languages = JList(<<"French">>),
                           !.education_level = JStr("phd")]
TenderEmpties ==
    [NoTenderFields EXCEPT !.preferred_skills = JList(<<>>),
                           !.languages = JList(<<>>),
                           !.education_level = JStr("")]

TenderPayloads == {TenderFull, TenderZeros, TenderTopList, TenderSkillInt}

MergeTenderPayloads == {TenderFull, TenderZeros, TenderLists, TenderEmpties}

\* What one provider does when called: it is not configured (returns None),
\* it raises (client error, timeout, or json.loads on an unparseable
\* response), it returns an empty document, or it returns a payload.
Provider(payloads, none) ==
    [kind : {"off", "raise", "empty"}, payload : {none}]
        \cup [kind : {"payload"}, payload : payloads]

\* _generate_json without its try/except: the exception of a provider
\* leaves it (kind "raised") and so leaves enrich_cv and the ingestion.
GenerateJsonUncaught(gemini, openrouter) ==
    IF gemini.kind = "payload" THEN gemini
    ELSE IF gemini.kind = "raise" THEN [kind |-> "raised", payload |-> gemini.payload]
    ELSE IF openrouter.kind = "payload" THEN openrouter
    ELSE IF openrouter.kind = "raise" THEN [kind |-> "raised", payload |-> gemini.payload]
    ELSE [kind |-> "absent", payload |-> gemini.payload]

\* LLMHelper._generate_json: gemini first, then openrouter; the first truthy
\* payload is returned, an exception moves on to the next provider, and None
\* (kind "absent") is returned when neither provider gives one.
GenerateJson(gemini, openrouter) ==
    IF gemini.kind = "payload" THEN gemini
    ELSE IF openrouter.kind = "payload" THEN openrouter
    ELSE [kind |-> "absent", payload |-> gemini.payload]

\* _generate_json calling a provider that raised a second time before it
\* moves on.
GenerateJsonRetrying(gemini, openrouter) ==
    IF gemini.kind = "payload"
    THEN [kind |-> "payload", payload |-> gemini.payload, calls |-> <<"gemini">>]
    ELSE LET first == IF gemini.kind = "raise" THEN <<"gemini", "gemini">>
                      ELSE <<"gemini">>
         IN  IF openrouter.kind = "payload"
             THEN [kind |-> "payload", payload |-> openrouter.payload,
                   calls |-> Append(first, "openrouter")]
             ELSE [kind |-> "absent", payload |-> gemini.payload,
                   calls |-> first \o (IF openrouter.kind = "raise"
                                       THEN <<"openrouter", "openrouter">>
                                       ELSE <<"openrouter">>)]

\* The loop of _generate_json over (self._generate_gemini,
\* self._generate_openrouter), with the generators it calls: a truthy payload
\* is returned at once, an exception or a falsy result (None of a provider
\* that is not configured, an empty document) goes on to the next generator,
\* and None is returned after the last.
RECURSIVE GenerateFrom(_, _, _)
GenerateFrom(generators, i, calls) ==
    IF i > Len(generators)
    THEN [kind |-> "absent", payload |-> generators[1].outcome.payload,
          calls |-> calls]
    ELSE LET generator == generators[i]
             called == Append(calls, generator.name)
         IN  IF generator.outcome.kind = "payload"
             THEN [kind |-> "payload", payload |-> generator.outcome.payload,
                   calls |-> called]
             ELSE GenerateFrom(generators, i + 1, called)

GenerateJsonCalls(gemini, openrouter) ==
    GenerateFrom(<<[name |-> "gemini", outcome |-> gemini],
                   [name |-> "openrouter", outcome |-> openrouter]>>, 1, <<>>)

\* The providers _generate_json calls, in order.
ProvidersCalled(gemini, openrouter) ==
    IF gemini.kind = "payload" THEN <<"gemini">> ELSE <<"gemini", "openrouter">>

\* The outcomes of one enrichment request: the second provider has an outcome
\* only when it is called.
OracleRuns(payloads, none) ==
    {r \in Provider(payloads, none) \X Provider(payloads, none) :
        r[1].kind = "payload" => r[2].kind = "off"}

(* ------------------------------------------------------ enrichment merge *)

\* set.update(str(x).strip().lower() for x in items if str(x).strip())
NormalizedSkills(items) ==
    {Lower(Strip(items[i])) : i \in {k \in DOMAIN items : Strip(items[k]) # ""}}
NormalizedSoftSkills(items) ==
    {Strip(items[i]) : i \in {k \in DOMAIN items : Strip(items[k]) # ""}}

\* The enrichment skills replacing the heuristic ones.
ReplacedSkills(existing, items) == NormalizedSkills(items)

\* merged_skills = set(technical_skills); merged_skills.update(...)
MergedSkills(existing, items) == existing \cup NormalizedSkills(items)

\* existing[name.lower()] = {"name": name.title()} on the insertion-ordered
\* dict of languages: an entry of the same lower-cased name is replaced in
\* place, a new one goes to the end.
SetLanguage(langs, name) ==
    IF \E i \in DOMAIN langs : Lower(langs[i]) = Lower(name)
    THEN [i \in DOMAIN langs |->
             IF Lower(langs[i]) = Lower(name) THEN Title(name) ELSE langs[i]]
    ELSE Append(langs, Title(name))

RECURSIVE MergeLanguages(_, _)
MergeLanguages(langs, items) ==
    IF items = <<>> THEN langs
    ELSE MergeLanguages(
             IF Strip(Head(items)) # "" THEN SetLanguage(langs, Strip(Head(items)))
             ELSE langs,
             Tail(items))

\* int(x) of app.py line 220: the value, or a ValueError / TypeError that the
\* code catches.
IntParses(j) == j.t = "int" \/ (j.t = "str" /\ j.s \in {"5", "7"})
IntOf(j) ==
    CASE j.t = "int" -> j.n
      [] j.s = "5" -> 5
      [] OTHER -> 7

\* The merge of ingest_cv_file (lines 175-222).  `raised` is an exception
\* that leaves ingest_cv_file: .get on a payload that is no dict, a loop
\* over a value that is not iterable, or int() of the float inf, whose
\* OverflowError is neither of the two exceptions line 221 catches.
MergeCv(cv_json, enriched) ==
    IF enriched.kind # "payload" THEN [raised |-> FALSE, cv |-> cv_json]
    ELSE LET e == enriched.payload IN
    IF e.top # "dict" THEN [raised |-> TRUE, cv |-> cv_json]
    ELSE IF \E f \in {e.technical_skills, e.soft_skills, e.languages} :
                Truthy(f) /\ ~Iterable(f)
    THEN [raised |-> TRUE, cv |-> cv_json]
    ELSE IF e.experience_years.t = "inf"
    THEN [raised |-> TRUE, cv |-> cv_json]
    ELSE
      [raised |-> FALSE,
       cv |->
        [cv_json EXCEPT
          !.full_name = Or(e.full_name, @),
          !.email = Or(e.email, @),
          !.phone = Or(e.phone, @),
          !.professional_summary = Or(e.professional_summary, @),
          !.technical_skills =
              IF Truthy(e.technical_skills)
              THEN MergedSkills(@, Items(e.technical_skills))
              ELSE @,
          !.soft_skills =
              IF Truthy(e.soft_skills)
              THEN @ \cup NormalizedSoftSkills(Items(e.soft_skills))
              ELSE @,
          !.languages =
              IF Truthy(e.languages)
              THEN MergeLanguages(@, Items(e.languages))
              ELSE @,
          !.education_level =
              IF Truthy(e.education_level)
              THEN Lower(Strip(PyStr(e.education_level)))
              ELSE @,
          !.experience_years =
              IF e.experience_years.t # "null" /\ IntParses(e.experience_years)
              THEN IntOf(e.experience_years)
              ELSE @]]

\* The merge of ingest_tender_file (lines 268-275): every field is
\* `enriched.get(k) or tender_json[k]`.
MergeTender(tender_json, enriched) ==
    IF enriched.kind # "payload" THEN [raised |-> FALSE, tender |-> tender_json]
    ELSE LET e == enriched.payload IN
    IF e.top # "dict" THEN [raised |-> TRUE, tender |-> tender_json]
    ELSE
      [raised |-> FALSE,
       tender |->
        [tender_json EXCEPT
          !.title = Or(e.title, @),
          !.required_skills = Or(e.required_skills, @),
          !.preferred_skills = Or(e.preferred_skills, @),
          !.languages = Or(e.languages, @),
          !.experience_level = Or(e.experience_level, @),
          !.education_level = Or(e.education_level, @),
          !.summary = Or(e.summary, @)]]

(* ------------------------------------------------------------ the stores *)

VARIABLES
    cv_documents,      \* table cv_documents: a set of rows
    tender_documents,  \* table tender_documents: a set of rows
    parsed_cvs,        \* PARSED_CVS_DIR: json_path -> the cv_json written there
    parsed_tenders,    \* PARSED_TENDERS_DIR: json_path -> the tender_json
    collection,        \* the chroma collection cv_profiles: id -> entry
    clock,             \* the second utc_now() last returned
    last,              \* the last call: its arguments and its outcome
    ranking,           \* the list the last search_candidates returned
    scoring,           \* SpecScore: the profiles scored and their scores
    match_runs,        \* table match_runs: a set of rows
    match_results,     \* table match_results: a set of rows
    sqlite_sequence,   \* the largest id match_results ever gave out
    ingesting,         \* SpecSteps: the ingest_cv_file call in progress
    upserting          \* SpecRace: the upsert_cv_document calls in progress

\* The tables of the match runs.
matching == <<match_runs, match_results, sqlite_sequence>>

\* The calls in progress.
running == <<ingesting, upserting>>

vars ==
    <<cv_documents, tender_documents, parsed_cvs, parsed_tenders, collection,
      clock, last, ranking, scoring, matching, running>>

\* The persistent state as one value, so that a handler that calls another
\* threads it through.
World ==
    [cv_documents |-> cv_documents, tender_documents |-> tender_documents,
     parsed_cvs |-> parsed_cvs, parsed_tenders |-> parsed_tenders,
     collection |-> collection, clock |-> clock]

\* f with key k bound to v (a file written, an id upserted).
Put(f, k, v) == [x \in DOMAIN f \cup {k} |-> IF x = k THEN v ELSE f[x]]

\* INTEGER PRIMARY KEY AUTOINCREMENT: one more than the largest id ever used;
\* no row is ever deleted.
NextId(rows) == Cardinality(rows) + 1

NoRow == [id |-> 0]

\* build_cv_search_text: the parts that are joined.  str.join raises a
\* TypeError on a truthy part that is no str.
CvSearchTextRaises(cv_json) ==
    \E part \in {cv_json.full_name, cv_json.professional_summary} :
        Truthy(part) /\ part.t # "str"
build_cv_search_text(cv_json, raw_text) ==
    <<cv_json.full_name.s, cv_json.professional_summary.s,
      cv_json.technical_skills, cv_json.languages, cv_json.keywords, raw_text>>

\* sqlite3 binds str and int parameters, and refuses a list.
SqlBindRaises(j) == j.t = "list"
\* A TEXT column stores an int as its decimal text.
SqlText(j) == IF j.t = "int" THEN IntStr(j.n) ELSE j.s

\* upsert_cv_document looking the existing row up by source_name instead of
\* content_hash.
UpsertBySourceName(rows, payload, now) ==
    IF \E r \in rows : r.source_name = payload.source_name
    THEN {IF r.source_name = payload.source_name
          THEN [payload EXCEPT !.id = r.id, !.created_at = r.created_at,
                               !.updated_at = now]
          ELSE r : r \in rows}
    ELSE rows \cup {[payload EXCEPT !.id = NextId(rows), !.created_at = now,
                                    !.updated_at = now]}

\* upsert_cv_document as INSERT OR REPLACE: the existing row is deleted and a
\* new one inserted, with a new id and a new created_at.
UpsertReplacing(rows, payload, now) ==
    {r \in rows : r.content_hash # payload.content_hash}
        \cup {[payload EXCEPT !.id = NextId(rows) + 1, !.created_at = now,
                              !.updated_at = now]}

\* LocalDatabase.upsert_cv_document: the table after the call.
upsert_cv_document(rows, payload, now) ==
    IF \E r \in rows : r.content_hash = payload.content_hash
    THEN {IF r.content_hash = payload.content_hash
          THEN [payload EXCEPT !.id = r.id, !.created_at = r.created_at,
                               !.updated_at = now]
          ELSE r : r \in rows}
    ELSE rows \cup {[payload EXCEPT !.id = NextId(rows), !.created_at = now,
                                    !.updated_at = now]}

\* The row upsert_cv_document returns: the row of that content hash.
CvRowOf(rows, content_hash) == CHOOSE r \in rows : r.content_hash = content_hash

\* SemanticStore.upsert_cv
upsert_cv(coll, cv_id, document, metadata) ==
    Put(coll, cv_id, [document |-> document, metadata |-> metadata])

\* ingest_cv_file(cv_path) on world w, with the outcome `run` of the two
\* providers and the clock reading `now`.  The result is the world after the
\* call, whether an exception left it, and what it returned.
ingest_cv_file(w, file, run, now) ==
    LET fail(w2) == [w |-> w2, raised |-> TRUE, row |-> NoRow]
        raw_text == extract_text(file)
        enriched == GenerateJson(run[1], run[2])
        merged == MergeCv(parse_cv_text(raw_text, file.name), enriched)
        cv_json == merged.cv
        content_hash == file_sha256(file)
        json_path == <<slugify(Stem(file.name)), content_hash>>
        w1 == [w EXCEPT !.parsed_cvs = Put(@, json_path, cv_json)]
        search_text == build_cv_search_text(cv_json, raw_text)
        payload ==
            [id |-> 0, source_name |-> file.name, file_path |-> file.name,
             content_hash |-> content_hash, json_path |-> json_path,
             full_name |-> cv_json.full_name.s,
             email |-> SqlText(cv_json.email),
             phone |-> SqlText(cv_json.phone),
             experience_years |-> cv_json.experience_years,
             education_level |-> cv_json.education_level,
             search_text |-> search_text, created_at |-> 0, updated_at |-> 0]
        rows == upsert_cv_document(w.cv_documents, payload, now)
        row == CvRowOf(rows, content_hash)
    IN  IF ExtractRaises(file) THEN fail(w)
        ELSE IF enriched.kind = "raised" THEN fail(w)
        ELSE IF merged.raised THEN fail(w)
        ELSE IF CvSearchTextRaises(cv_json) THEN fail(w1)
        ELSE IF SqlBindRaises(cv_json.email) \/ SqlBindRaises(cv_json.phone)
        THEN fail(w1)
        ELSE [w |-> [w1 EXCEPT
                       !.cv_documents = rows,
                       !.collection =
                           upsert_cv(@, row.id, search_text,
                                     [full_name |-> row.full_name,
                                      source_name |-> row.source_name,
                                      experience_years |-> row.experience_years,
                                      education_level |-> row.education_level])],
              raised |-> FALSE, row |-> row]

\* build_tender_search_text: " ".join raises a TypeError on a truthy part
\* that is no str and on a list of skills or languages that is not iterable.
TenderSearchTextRaises(tender_json) ==
    \/ \E part \in {tender_json.title, tender_json.summary} :
          Truthy(part) /\ part.t # "str"
    \/ \E part \in {tender_json.required_skills, tender_json.languages} :
          ~Iterable(part)
build_tender_search_text(tender_json, raw_text) ==
    <<tender_json.title.s, tender_json.summary.s,
      Items(tender_json.required_skills), Items(tender_json.languages),
      tender_json.keywords, raw_text>>

\* LocalDatabase.insert_tender_document: the table after the call.  A row of
\* the same content hash is returned as it is and nothing is written.
insert_tender_document(rows, payload, now) ==
    IF \E r \in rows : r.content_hash = payload.content_hash
    THEN rows
    ELSE rows \cup {[payload EXCEPT !.id = NextId(rows), !.created_at = now]}

TenderRowOf(rows, content_hash) ==
    CHOOSE r \in rows : r.content_hash = content_hash

\* ingest_tender_file(tender_path)
ingest_tender_file(w, file, run, now) ==
    LET fail(w2) == [w |-> w2, raised |-> TRUE, row |-> NoRow]
        raw_text == extract_text(file)
        enriched == GenerateJson(run[1], run[2])
        merged == MergeTender(parse_tender_text(raw_text, file.name), enriched)
        tender_json == merged.tender
        content_hash == file_sha256(file)
        json_path == <<slugify(Stem(file.name)), content_hash>>
        w1 == [w EXCEPT !.parsed_tenders = Put(@, json_path, tender_json)]
        search_text == build_tender_search_text(tender_json, raw_text)
        payload ==
            [id |-> 0, source_name |-> file.name, file_path |-> file.name,
             content_hash |-> content_hash, json_path |-> json_path,
             title |-> tender_json.title.s, search_text |-> search_text,
             required_skills_json |-> tender_json.required_skills,
             created_at |-> 0]
        rows == insert_tender_document(w.tender_documents, payload, now)
    IN  IF ExtractRaises(file) THEN fail(w)
        ELSE IF enriched.kind = "raised" THEN fail(w)
        ELSE IF merged.raised THEN fail(w)
        ELSE IF TenderSearchTextRaises(tender_json) THEN fail(w1)
        ELSE [w |-> [w1 EXCEPT !.tender_documents = rows],
              raised |-> FALSE, row |-> TenderRowOf(rows, content_hash)]

\* load_bank_files: the supported files of the bank directory, sorted by
\* path.  A directory holds one file per name: bank maps names to bytes.
SortedNames(names) ==
    CHOOSE seq \in [1..Cardinality(names) -> names] :
        /\ Range(seq) = names
        /\ \A i \in DOMAIN seq : \A j \in DOMAIN seq :
              i < j => (seq[i] = "ana.pdf" /\ seq[j] = "bob.txt")
load_bank_files(bank) ==
    LET names == SortedNames(DOMAIN bank)
    IN  [i \in DOMAIN names |-> [name |-> names[i], bytes |-> bank[names[i]]]]

\* sync_cv_bank: ingest_cv_file on every file of the bank, in order.  An
\* exception of ingest_cv_file is not caught: it ends the loop and leaves
\* sync_cv_bank.  runs[i] and nows[i] are the enrichment outcome and the
\* clock reading of the i-th file.
RECURSIVE SyncFrom(_, _, _, _, _, _)
SyncFrom(w, paths, runs, nows, i, indexed) ==
    IF i > Len(paths) THEN [w |-> w, raised |-> FALSE, indexed |-> indexed]
    ELSE LET r == ingest_cv_file(w, paths[i], runs[i], nows[i])
         IN  IF r.raised
             THEN [w |-> r.w, raised |-> TRUE, indexed |-> indexed]
             ELSE SyncFrom(r.w, paths, runs, nows, i + 1, Append(indexed, r.row.id))

sync_cv_bank(w, bank, runs, nows) ==
    SyncFrom(w, load_bank_files(bank), runs, nows, 1, <<>>)

(* ---------------------------------------------------------- the scorer *)

\* round(x, 2) of the rational num / den (den > 0), in hundredths: the
\* nearest hundredth, a tie going to the even one.
RoundHundredths(num, den) ==
    LET a == 100 * num
        q == a \div den
        r == a % den
    IN  IF 2 * r < den THEN q
        ELSE IF 2 * r > den THEN q + 1
        ELSE IF q % 2 = 0 THEN q ELSE q + 1

education_rank(level) ==
    CASE level = "bachelor" -> 1
      [] level = "master" -> 2
      [] level = "phd" -> 3
      [] OTHER -> 0

\* set(tender_json.get("required_skills", []))
RequiredSkills(tender_json) == Range(Items(tender_json.required_skills))

\* {language.lower() for language in tender_json.get("languages", []) if language}
TenderLanguages(tender_json) ==
    {Lower(x) : x \in {y \in Range(Items(tender_json.languages)) : y # ""}}

\* {item["name"].lower() for item in languages if item.get("name")}
CvLanguages(cv_json) ==
    {Lower(x) : x \in {y \in Range(cv_json.languages) : y # ""}}

\* int(tender_json.get("experience_level", 0) or 0)
RequiredExperience(tender_json) ==
    IF Truthy(tender_json.experience_level)
    THEN IntOf(tender_json.experience_level)
    ELSE 0

\* The skill sub-score from missing_skills instead of matched_skills.
SkillScoreOfMissing(required_skills, cv_skills) ==
    IF required_skills # {}
    THEN <<Cardinality(required_skills \ cv_skills) * 45,
           Cardinality(required_skills)>>
    ELSE <<25, 1>>

\* The four sub-scores, each a fraction <<numerator, denominator>>.
SkillScore(required_skills, cv_skills) ==
    IF required_skills # {}
    THEN <<Cardinality(required_skills \cap cv_skills) * 45,
           Cardinality(required_skills)>>
    ELSE <<25, 1>>

LanguageScore(tender_languages, cv_languages) ==
    IF tender_languages # {}
    THEN <<Cardinality(tender_languages \cap cv_languages) * 15,
           Cardinality(tender_languages)>>
    ELSE <<8, 1>>

\* The experience sub-score without min(..., 1.0).
ExperienceUncapped(required_experience, candidate_experience) ==
    IF required_experience # 0
    THEN <<candidate_experience * 15, required_experience>>
    ELSE <<8, 1>>

\* min(candidate / required, 1.0) * 15
ExperienceScore(required_experience, candidate_experience) ==
    IF required_experience > 0
    THEN <<(IF candidate_experience < required_experience
            THEN candidate_experience ELSE required_experience) * 15,
           required_experience>>
    ELSE IF required_experience < 0
    THEN IF candidate_experience >= required_experience
         THEN <<(0 - candidate_experience) * 15, 0 - required_experience>>
         ELSE <<15, 1>>
    ELSE <<8, 1>>

EducationScore(required_education, candidate_education) ==
    IF required_education # 0
    THEN IF candidate_education >= required_education THEN <<10, 1>> ELSE <<4, 1>>
    ELSE <<6, 1>>

\* a + b on fractions
FracAdd(a, b) == <<a[1] * b[2] + b[1] * a[2], a[2] * b[2]>>

\* compute_lexical_score
compute_lexical_score(tender_json, cv_json) ==
    LET required_skills == RequiredSkills(tender_json)
        cv_skills == cv_json.technical_skills
        tender_languages == TenderLanguages(tender_json)
        cv_languages == CvLanguages(cv_json)
        required_experience == RequiredExperience(tender_json)
        candidate_experience == cv_json.experience_years
        total ==
            FracAdd(
                FracAdd(SkillScore(required_skills, cv_skills),
                        LanguageScore(tender_languages, cv_languages)),
                FracAdd(ExperienceScore(required_experience, candidate_experience),
                        EducationScore(
                            education_rank(PyStr(tender_json.education_level)),
                            education_rank(cv_json.education_level))))
    IN  [lexical_score |-> RoundHundredths(total[1], total[2]),
         matched_skills |-> required_skills \cap cv_skills,
         missing_skills |-> required_skills \ cv_skills,
         candidate_languages |-> cv_languages,
         candidate_experience_years |-> candidate_experience,
         tender_languages |-> tender_languages,
         required_experience |-> required_experience]

\* A distance of the similarity index, in hundred-thousandths, or None.
NoDistance == [none |-> TRUE, d |-> 0]
Distance(d) == [none |-> FALSE, d |-> d]

\* semantic_distance_to_score taking the distance for a similarity:
\* clipped * 100 instead of (1 - clipped) * 100.
SemanticOfSimilarity(distance) ==
    IF distance.none THEN 0
    ELSE LET clipped ==
                 IF distance.d < 0 THEN 0
                 ELSE IF distance.d > 100000 THEN 100000
                 ELSE distance.d
         IN  RoundHundredths(clipped, 1000)

\* semantic_distance_to_score without min(max(distance, 0.0), 1.0).
SemanticUnclamped(distance) ==
    IF distance.none THEN 0
    ELSE RoundHundredths(100000 - distance.d, 1000)

\* semantic_distance_to_score
semantic_distance_to_score(distance) ==
    IF distance.none THEN 0
    ELSE LET clipped ==
                 IF distance.d < 0 THEN 0
                 ELSE IF distance.d > 100000 THEN 100000
                 ELSE distance.d
         IN  RoundHundredths(100000 - clipped, 1000)

\* The final score with the two weights exchanged.
FinalScoreSwapped(lexical_score, semantic_score, up) ==
    LET a == 45 * lexical_score + 55 * semantic_score
        q == a \div 100
        r == a % 100
    IN  IF r < 50 THEN q
        ELSE IF r > 50 THEN q + 1
        ELSE IF up THEN q + 1 ELSE q

\* round(lexical * 0.55 + semantic * 0.45, 2).  0.55 and 0.45 are no binary
\* fractions, so a sum that falls exactly between two hundredths is rounded
\* to either of them: `up` is the way the floating-point sum falls.
FinalScore(lexical_score, semantic_score, up) ==
    LET a == 55 * lexical_score + 45 * semantic_score
        q == a \div 100
        r == a % 100
    IN  IF r < 50 THEN q
        ELSE IF r > 50 THEN q + 1
        ELSE IF up THEN q + 1 ELSE q

(* ------------------------------------------------------------ the ranking *)

SEARCH_TOP_K == 10

Max(a, b) == IF a > b THEN a ELSE b
Min(a, b) == IF a < b THEN a ELSE b

\* LocalDatabase.list_cv_documents: ORDER BY updated_at DESC, id DESC
\* list_cv_documents with LIMIT 1: only the row written last.
ListLastWritten(rows) ==
    IF rows = {} THEN <<>>
    ELSE <<CHOOSE r \in rows : \A o \in rows :
               \/ r.updated_at > o.updated_at
               \/ (r.updated_at = o.updated_at /\ r.id >= o.id)>>

RECURSIVE list_cv_documents(_)
list_cv_documents(rows) ==
    IF rows = {} THEN <<>>
    ELSE LET first ==
                 CHOOSE r \in rows : \A o \in rows :
                     \/ r.updated_at > o.updated_at
                     \/ (r.updated_at = o.updated_at /\ r.id >= o.id)
         IN  <<first>> \o list_cv_documents(rows \ {first})

\* What the similarity index does on one query: query() answers with the
\* distance of every entry it returns, count() fails (and is taken for 0),
\* or query() raises.
QueryOutcomes(coll, distances) ==
    [kind : {"ok"}, dist : [DOMAIN coll -> distances]]
        \cup [kind : {"count_fails", "query_raises"}, dist : {[id \in DOMAIN coll |-> 0]}]

\* SemanticStore.search: the ids it returns with their distances, the
\* n_results nearest entries of the collection.
SearchRaises(coll, outcome) ==
    outcome.kind = "query_raises" /\ DOMAIN coll # {}
search(coll, outcome, limit) ==
    IF outcome.kind = "count_fails" \/ DOMAIN coll = {}
    THEN [id \in {} |-> 0]
    ELSE LET count == Cardinality(DOMAIN coll)
             n_results == Max(1, Min(limit, count))
             hits ==
                 CHOOSE h \in SUBSET DOMAIN coll :
                     /\ Cardinality(h) = Min(n_results, count)
                     /\ \A a \in h : \A b \in DOMAIN coll \ h :
                           outcome.dist[a] <= outcome.dist[b]
         IN  [id \in hits |-> outcome.dist[id]]

\* build_justification: which notes are written, in order.
build_justification(matched_skills, missing_skills, cv_languages, tender_languages, tender_experience) ==
    <<"semantic">>
        \o (IF matched_skills # {} THEN <<"matched">> ELSE <<>>)
        \o (IF missing_skills # {} THEN <<"missing">> ELSE <<>>)
        \o (IF tender_languages # {} /\ cv_languages \cap tender_languages # {}
            THEN <<"languages">> ELSE <<>>)
        \o (IF tender_experience # 0 THEN <<"experience">> ELSE <<>>)

\* The sort with cv_id as a secondary key: entries of equal score go by
\* ascending id.
RECURSIVE SortByScoreThenId(_)
SortByScoreThenId(entries) ==
    IF entries = <<>> THEN <<>>
    ELSE LET sorted == SortByScoreThenId(SubSeq(entries, 1, Len(entries) - 1))
             x == entries[Len(entries)]
             k == Cardinality({i \in DOMAIN sorted :
                     \/ sorted[i].score > x.score
                     \/ sorted[i].score = x.score /\ sorted[i].cv_id < x.cv_id})
         IN  SubSeq(sorted, 1, k) \o <<x>> \o SubSeq(sorted, k + 1, Len(sorted))

\* list.sort(key=score, reverse=True): stable, so entries of equal score
\* keep their order.
RECURSIVE SortByScore(_)
SortByScore(entries) ==
    IF entries = <<>> THEN <<>>
    ELSE LET sorted == SortByScore(SubSeq(entries, 1, Len(entries) - 1))
             x == entries[Len(entries)]
             k == Cardinality({i \in DOMAIN sorted : sorted[i].score >= x.score})
         IN  SubSeq(sorted, 1, k) \o <<x>> \o SubSeq(sorted, k + 1, Len(sorted))

\* search_candidates(tender_json, tender_search_text) on world w.  outcome is
\* what the similarity index does, explain[id] what explain_match gets from
\* the providers for that candidate ("absent", "notes", or "nondict": a
\* payload that is no dict, on which payload.get raises), up the candidates
\* whose final score rounds up on a tie.
SearchCandidatesRaises(w, outcome, explain) ==
    /\ w.cv_documents # {}
    /\ \/ SearchRaises(w.collection, outcome)
       \/ \E r \in w.cv_documents : explain[r.id] = "nondict"

search_candidates(w, tender_json, outcome, explain, up) ==
    LET cv_rows == list_cv_documents(w.cv_documents)
        semantic_hits ==
            search(w.collection, outcome, Max(SEARCH_TOP_K, Len(cv_rows)))
        entry(row) ==
            LET cv_json == w.parsed_cvs[row.json_path]
                lexical == compute_lexical_score(tender_json, cv_json)
                semantic_score ==
                    semantic_distance_to_score(
                        IF row.id \in DOMAIN semantic_hits
                        THEN Distance(semantic_hits[row.id])
                        ELSE NoDistance)
            IN  [cv_id |-> row.id,
                 candidate_name |-> row.full_name,
                 source_file |-> row.source_name,
                 score |-> FinalScore(lexical.lexical_score, semantic_score,
                                      row.id \in up),
                 semantic_score |-> semantic_score,
                 lexical_score |-> lexical.lexical_score,
                 matched_skills |-> lexical.matched_skills,
                 missing_skills |-> lexical.missing_skills,
                 candidate_languages |-> lexical.candidate_languages,
                 candidate_experience_years |-> lexical.candidate_experience_years,
                 justification |->
                     IF explain[row.id] = "notes" THEN <<"llm">>
                     ELSE build_justification(
                              lexical.matched_skills, lexical.missing_skills,
                              lexical.candidate_languages, lexical.tender_languages,
                              lexical.required_experience)]
    IN  IF cv_rows = <<>> THEN <<>>
        ELSE SortByScore([i \in DOMAIN cv_rows |-> entry(cv_rows[i])])

(* ------------------------------------------------------------ the calls *)

\* The clock readings an operation that starts at `from` may see.
Nows(from) == {t \in {from, from + 1} : t <= MaxClock}

NoFile == [name |-> "", bytes |-> ""]
NoBank == [n \in {} |-> ""]
NoTender == parse_tender_text("", "")
NoCall ==
    [op |-> "none", file |-> NoFile, bank |-> NoBank,
     cv_payload |-> NoCvFields, tender_payload |-> NoTenderFields,
     oracle |-> "none", raised |-> FALSE, id |-> 0, existed |-> FALSE,
     indexed |-> <<>>, tender_json |-> NoTender, index |-> "none",
     explain |-> "none"]

\* How one enrichment request ended: with a payload, with nothing because a
\* provider raised ("failed"), or with nothing because no provider had one.
OracleResult(run) ==
    IF GenerateJson(run[1], run[2]).kind = "payload" THEN "payload"
    ELSE IF run[1].kind = "raise" \/ run[2].kind = "raise" THEN "failed"
    ELSE "none"

\* No ingest_cv_file call is in progress.
NoIngestion == [pc |-> "idle"]

\* The two callers of upsert_cv_document, neither of them in a call.
Callers == {"c1", "c2"}
NoUpserts == [c \in Callers |-> [pc |-> "idle"]]

\* The state after construction: _init_db on a new database file, an empty
\* chroma collection, empty artifact directories.
EmptyWorld ==
    /\ cv_documents = {}
    /\ tender_documents = {}
    /\ parsed_cvs = [p \in {} |-> 0]
    /\ parsed_tenders = [p \in {} |-> 0]
    /\ collection = [i \in {} |-> 0]
    /\ clock = 1
    /\ last = NoCall
    /\ ranking = <<>>
    /\ match_runs = {}
    /\ match_results = {}
    /\ sqlite_sequence = 0
    /\ ingesting = NoIngestion
    /\ upserting = NoUpserts

NoScoring == [phase |-> "none"]

Init == EmptyWorld /\ scoring = NoScoring

SetWorld(w, now) ==
    /\ cv_documents' = w.cv_documents
    /\ tender_documents' = w.tender_documents
    /\ parsed_cvs' = w.parsed_cvs
    /\ parsed_tenders' = w.parsed_tenders
    /\ collection' = w.collection
    /\ clock' = now

\* A call of ingest_cv_file on one of `files`, the providers answering with
\* one of `payloads`.
IngestCvOf(files, runs) ==
    \E file \in files : \E run \in runs :
    \E now \in Nows(clock) :
        LET r == ingest_cv_file(World, file, run, now)
        IN  /\ SetWorld(r.w, now)
            /\ last' = [NoCall EXCEPT
                          !.op = "ingest_cv", !.file = file,
                          !.cv_payload = GenerateJson(run[1], run[2]).payload,
                          !.oracle = OracleResult(run),
                          !.raised = r.raised, !.id = r.row.id,
                          !.existed = \E x \in cv_documents :
                                          x.content_hash = file_sha256(file)]
            /\ ranking' = <<>>
            /\ UNCHANGED <<scoring, matching, running>>

\* A call of ingest_tender_file.
IngestTenderOf(files, runs) ==
    \E file \in files : \E run \in runs :
    \E now \in Nows(clock) :
        LET r == ingest_tender_file(World, file, run, now)
        IN  /\ SetWorld(r.w, now)
            /\ last' = [NoCall EXCEPT
                          !.op = "ingest_tender", !.file = file,
                          !.tender_payload = GenerateJson(run[1], run[2]).payload,
                          !.oracle = OracleResult(run),
                          !.raised = r.raised, !.id = r.row.id,
                          !.existed = \E x \in tender_documents :
                                          x.content_hash = file_sha256(file)]
            /\ ranking' = <<>>
            /\ UNCHANGED <<scoring, matching, running>>

(* ------------- Spec: candidate ingestion;  SpecBank: the bank sync *)

\* The enrichment requests of Spec: gemini is configured and openrouter is
\* not (its key is empty, so _generate_openrouter returns None).
GeminiOnly(payloads) ==
    {r \in OracleRuns(payloads, NoCvFields) :
        r[1].kind # "off" /\ r[2].kind = "off"}

\* The enrichment outcomes of the files of a bank sync: none of them makes
\* ingest_cv_file raise.
BankRuns == {r \in GeminiOnly({CvSkillOnly}) : r[1].kind # "empty"}

\* The directories CV_BANK_DIR can be: some of the names, each with bytes.
Banks == UNION {[names -> FileBytes] : names \in SUBSET FileNames}

IngestCv == IngestCvOf(Files, GeminiOnly({CvSkillOnly, CvTopList}))

SyncCvBank ==
    \E bank \in Banks :
    \E runs \in [1..Cardinality(DOMAIN bank) -> BankRuns] :
    \E nows \in [1..Cardinality(DOMAIN bank) -> 1..MaxClock] :
        /\ \A i \in DOMAIN nows :
              nows[i] \in Nows(IF i = 1 THEN clock ELSE nows[i - 1])
        /\ LET r == sync_cv_bank(World, bank, runs, nows)
           IN  /\ SetWorld(r.w, IF nows = <<>> THEN clock ELSE nows[Len(nows)])
               /\ last' = [NoCall EXCEPT
                             !.op = "sync_cv_bank", !.bank = bank,
                             !.raised = r.raised, !.indexed = r.indexed]
               /\ ranking' = <<>>
               /\ UNCHANGED <<scoring, matching, running>>

Next == IngestCv

Spec == Init /\ [][Next]_vars

NextBank == SyncCvBank

SpecBank == Init /\ [][NextBank]_vars

(* ------------------------------------- SpecTender: requirement ingestion *)

\* The tender files of the model: the bytes txtB under either name.
TenderFiles == {f \in Files : f.bytes = "txtB"}

IngestTender ==
    IngestTenderOf(TenderFiles,
                   OracleRuns({TenderFull, TenderTopList, TenderSkillInt},
                              NoTenderFields))

NextTender == IngestTender

SpecTender == Init /\ [][NextTender]_vars

(* ------------------- SpecEnrich: ingestion under every enrichment outcome *)

\* The enrichment requests of SpecEnrich: the first provider answers, or it
\* raises or returns nothing and the second one answers, raises or is not
\* configured.
EnrichRuns(payloads, none) ==
    {r \in OracleRuns(payloads, none) :
        /\ r[1].kind # "off"
        /\ r[2].kind # "empty"
        /\ r[2].kind = "payload" => r[1].kind = "raise"}

EnrichIngestCv ==
    IngestCvOf({[name |-> "ana.pdf", bytes |-> "pdfA"]},
               EnrichRuns(CvPayloads, NoCvFields))

EnrichIngestTender ==
    IngestTenderOf({[name |-> "bob.txt", bytes |-> "txtB"]},
                   EnrichRuns(TenderPayloads, NoTenderFields))

NextEnrich == EnrichIngestCv \/ EnrichIngestTender

SpecEnrich == Init /\ [][NextEnrich]_vars

(* ------------------------------------------- SpecRank: the ranking run *)

RankFiles ==
    {[name |-> "ana.pdf", bytes |-> "pdfA"], [name |-> "bob.txt", bytes |-> "txtB"]}

RankIngestCv ==
    IngestCvOf(RankFiles, {r \in GeminiOnly({CvSkillOnly}) : r[1].kind # "raise"})

\* The requirement profiles ingest_tender_file returns for the tender file
\* bob.txt, without enrichment and with the payload TenderFull, and for a
\* tender file in which the heuristics find no requirement at all.
RankTenders ==
    LET heuristic == parse_tender_text("textB", "bob.txt")
    IN  {heuristic,
         MergeTender(heuristic, [kind |-> "payload", payload |-> TenderFull]).tender,
         parse_tender_text("textRaw", "bob.txt")}

\* The distances the similarity index answers with, in hundred-thousandths.
RankDistances == {0, 33333}

SearchCandidates ==
    \E tender_json \in RankTenders :
    \E outcome \in QueryOutcomes(collection, RankDistances) :
    \E e \in {"absent", "notes", "nondict"} :
        LET explain == [id \in {r.id : r \in cv_documents} |-> e]
            raised == SearchCandidatesRaises(World, outcome, explain)
            ties ==
                IF raised THEN {}
                ELSE LET down == search_candidates(World, tender_json, outcome, explain, {})
                     IN  {down[i].cv_id : i \in
                            {k \in DOMAIN down :
                               (55 * down[k].lexical_score
                                  + 45 * down[k].semantic_score) % 100 = 50}}
        IN  \E up \in SUBSET ties :
            /\ ranking' = IF raised THEN <<>>
                          ELSE search_candidates(World, tender_json, outcome, explain, up)
            /\ last' = [NoCall EXCEPT
                          !.op = "search_candidates", !.tender_json = tender_json,
                          !.index = outcome.kind, !.explain = e,
                          !.raised = raised]
            /\ UNCHANGED <<cv_documents, tender_documents, parsed_cvs,
                           parsed_tenders, collection, clock, scoring,
                           matching, running>>

NextRank == RankIngestCv \/ SearchCandidates

SpecRank == Init /\ [][NextRank]_vars

(* ------------------------------------------- SpecMerge: the merge rules *)

\* One candidate file and one tender file are ingested again and again; the
\* first provider answers with one of the payloads of the merge rules.
MergeRuns(payloads, none) ==
    {r \in OracleRuns(payloads, none) :
        r[1].kind = "payload" /\ r[2].kind = "off"}

MergeIngestCv ==
    IngestCvOf({[name |-> "ana.pdf", bytes |-> "pdfA"]},
               MergeRuns(MergeCvPayloads, NoCvFields))

MergeIngestTender ==
    IngestTenderOf({[name |-> "bob.txt", bytes |-> "txtB"]},
                   MergeRuns(MergeTenderPayloads, NoTenderFields))

NextMerge == MergeIngestCv \/ MergeIngestTender

SpecMerge == Init /\ [][NextMerge]_vars

(* -------------------------------------- SpecOracle: one oracle request *)

\* One request of enrich_cv or enrich_tender: each provider is given what it
\* would do if it were called.
EnrichRequest(op, payloads, none) ==
    \E gemini \in Provider(payloads, none) :
    \E openrouter \in Provider(payloads, none) :
        LET r == GenerateJsonCalls(gemini, openrouter)
        IN  /\ last' = [op |-> op, gemini |-> gemini, openrouter |-> openrouter,
                        calls |-> r.calls, kind |-> r.kind,
                        payload |-> r.payload]
            /\ UNCHANGED <<cv_documents, tender_documents, parsed_cvs,
                           parsed_tenders, collection, clock, ranking, scoring,
                           matching, running>>

EnrichCv == EnrichRequest("enrich_cv", CvPayloads, NoCvFields)

EnrichTender == EnrichRequest("enrich_tender", TenderPayloads, NoTenderFields)

NextOracle == EnrichCv \/ EnrichTender

SpecOracle == Init /\ [][NextOracle]_vars

(* ------------------------ SpecSteps: ingest_cv_file, one write at a time *)

\* What ingest_cv_file computes from its file and the answer of the oracle:
\* the profile, the path of its artifact, the search text and the payload of
\* the row, and whether the computation raises before or after the artifact
\* is written.
IngestionPlan(file, run) ==
    LET raw_text == extract_text(file)
        enriched == GenerateJson(run[1], run[2])
        merged == MergeCv(parse_cv_text(raw_text, file.name), enriched)
        cv_json == merged.cv
        content_hash == file_sha256(file)
        json_path == <<slugify(Stem(file.name)), content_hash>>
        search_text == build_cv_search_text(cv_json, raw_text)
    IN  [raises_before_write |->
             ExtractRaises(file) \/ enriched.kind = "raised" \/ merged.raised,
         raises_after_write |->
             \/ CvSearchTextRaises(cv_json)
             \/ SqlBindRaises(cv_json.email) \/ SqlBindRaises(cv_json.phone),
         cv_json |-> cv_json, json_path |-> json_path,
         search_text |-> search_text,
         payload |->
            [id |-> 0, source_name |-> file.name, file_path |-> file.name,
             content_hash |-> content_hash, json_path |-> json_path,
             full_name |-> cv_json.full_name.s,
             email |-> SqlText(cv_json.email),
             phone |-> SqlText(cv_json.phone),
             experience_years |-> cv_json.experience_years,
             education_level |-> cv_json.education_level,
             search_text |-> search_text, created_at |-> 0, updated_at |-> 0]]

\* The files ingested step by step, and the answers of the oracle.
StepFiles == RankFiles \cup {[name |-> "ana.pdf", bytes |-> "txtB"]}
StepRuns == GeminiOnly({CvSkillOnly})

\* The steps of ingest_cv_file that call out: extract_text (with the oracle
\* and the merge), write_json, db.upsert_cv_document, semantic_store.upsert_cv.
Steps == {"extract", "write", "store", "index"}

\* The frame of a step of ingest_cv_file: what no step writes.
StepFrame == UNCHANGED <<tender_documents, parsed_tenders, ranking, scoring, matching, upserting>>

\* The call leaves ingest_cv_file with an exception raised at `step`.
Raise(step) ==
    /\ ingesting' = [ingesting EXCEPT !.pc = "failed"]
    /\ last' = [op |-> "ingest_cv", file |-> ingesting.file, raised |-> TRUE,
                step |-> step]

\* ingest_cv_file(cv_path) is called: for a new file when no call has failed,
\* and again for the same file (the retry of the client) when the last call
\* of it raised.  `base` is the state the first call of the file found.
StartIngestion ==
    \E file \in StepFiles : \E run \in StepRuns :
        /\ ingesting.pc \in {"idle", "failed"}
        /\ ingesting.pc = "failed" => file = ingesting.file
        /\ ingesting' =
              [pc |-> "extract", file |-> file, run |-> run,
               base |-> IF ingesting.pc = "failed" THEN ingesting.base ELSE World,
               retry |-> ingesting.pc = "failed", now |-> 0]
        /\ UNCHANGED <<cv_documents, parsed_cvs, collection, clock, last>>
        /\ StepFrame

\* Lines 172-222: the text is extracted, parsed, enriched and merged.
ExtractAndMerge ==
    /\ ingesting.pc = "extract"
    /\ IF IngestionPlan(ingesting.file, ingesting.run).raises_before_write
       THEN Raise("extract")
       ELSE ingesting' = [ingesting EXCEPT !.pc = "write"] /\ UNCHANGED last
    /\ UNCHANGED <<cv_documents, parsed_cvs, collection, clock>>
    /\ StepFrame

\* Lines 224-227: the artifact is written, then the search text is built.
WriteArtifact ==
    LET plan == IngestionPlan(ingesting.file, ingesting.run)
    IN  /\ ingesting.pc = "write"
        /\ parsed_cvs' = Put(parsed_cvs, plan.json_path, plan.cv_json)
        /\ IF plan.raises_after_write
           THEN Raise("store")
           ELSE ingesting' = [ingesting EXCEPT !.pc = "store"] /\ UNCHANGED last
        /\ UNCHANGED <<cv_documents, collection, clock>>
        /\ StepFrame

\* Lines 229-242: db.upsert_cv_document, one committed transaction.
StoreRow ==
    LET plan == IngestionPlan(ingesting.file, ingesting.run)
    IN  \E now \in Nows(clock) :
            /\ ingesting.pc = "store"
            /\ cv_documents' = upsert_cv_document(cv_documents, plan.payload, now)
            /\ clock' = now
            /\ ingesting' = [ingesting EXCEPT !.pc = "index", !.now = now]
            /\ UNCHANGED <<parsed_cvs, collection, last>>
            /\ StepFrame

\* Lines 244-254: semantic_store.upsert_cv under the id of the row, and the
\* return.
IndexRow ==
    LET plan == IngestionPlan(ingesting.file, ingesting.run)
        row == CvRowOf(cv_documents, plan.payload.content_hash)
    IN  /\ ingesting.pc = "index"
        /\ collection' =
              upsert_cv(collection, row.id, plan.search_text,
                        [full_name |-> row.full_name,
                         source_name |-> row.source_name,
                         experience_years |-> row.experience_years,
                         education_level |-> row.education_level])
        /\ ingesting' = NoIngestion
        /\ last' = [op |-> "ingest_cv", file |-> ingesting.file, raised |-> FALSE,
                    run |-> ingesting.run, base |-> ingesting.base,
                    retry |-> ingesting.retry, now |-> ingesting.now,
                    id |-> row.id]
        /\ UNCHANGED <<cv_documents, parsed_cvs, clock>>
        /\ StepFrame

\* The call a step makes raises (the file cannot be read, the disk is full,
\* the database is locked, the index is unavailable): the step writes
\* nothing and the exception leaves ingest_cv_file.
StepRaises ==
    /\ ingesting.pc \in Steps
    /\ Raise(ingesting.pc)
    /\ UNCHANGED <<cv_documents, parsed_cvs, collection, clock>>
    /\ StepFrame

NextSteps ==
    \/ StartIngestion
    \/ ExtractAndMerge
    \/ WriteArtifact
    \/ StoreRow
    \/ IndexRow
    \/ StepRaises

SpecSteps == Init /\ [][NextSteps]_vars

(* ----------------- SpecRace: two upsert_cv_document calls, interleaved *)

\* The payloads the callers pass: those ingest_cv_file builds for two files
\* of the same bytes under two names and for a file of other bytes.
RacePayloads ==
    {IngestionPlan(file, run).payload :
        file \in RankFiles \cup {[name |-> "bob.txt", bytes |-> "pdfA"]},
        run \in {r \in StepRuns : r[1].kind = "payload"}}

\* A schema without UNIQUE on content_hash: no INSERT is refused.
NoUniqueConstraint(rows, payload) == FALSE

\* content_hash TEXT NOT NULL UNIQUE: an INSERT of a content hash the table
\* holds is refused with an IntegrityError.
UniqueViolated(rows, payload) ==
    \E r \in rows : r.content_hash = payload.content_hash

\* UPDATE cv_documents SET ... WHERE id = ?: every column but id,
\* content_hash and created_at.
UpdateCvRow(rows, id, payload, now) ==
    {IF r.id = id
     THEN [payload EXCEPT !.id = r.id, !.content_hash = r.content_hash,
                          !.created_at = r.created_at, !.updated_at = now]
     ELSE r : r \in rows}

\* INSERT INTO cv_documents (...) VALUES (...)
InsertCvRow(rows, payload, now) ==
    rows \cup {[payload EXCEPT !.id = NextId(rows), !.created_at = now,
                               !.updated_at = now]}

\* A caller holds the write lock of the database from its UPDATE or INSERT
\* to its commit.
Locked == \E c \in Callers : upserting[c].pc = "written"

\* The frame of a step of upsert_cv_document.
RaceFrame == UNCHANGED <<tender_documents, parsed_cvs, parsed_tenders, collection, ranking, scoring, matching, ingesting>>

\* The call of caller c ends with an exception and its transaction, if any,
\* is rolled back.
UpsertRaises(c, error) ==
    /\ upserting' = [upserting EXCEPT ![c] = [pc |-> "idle"]]
    /\ last' = [op |-> "upsert_cv_document", caller |-> c, raised |-> error,
                content_hash |-> upserting[c].payload.content_hash]

\* Lines 80-85: utc_now(), a connection of the caller's own, and the SELECT
\* of the row of the content hash, which reads what is committed.
SelectExisting(c) ==
    \E payload \in RacePayloads : \E now \in Nows(clock) :
        /\ upserting[c].pc = "idle"
        /\ upserting' =
              [upserting EXCEPT ![c] =
                  [pc |-> "selected", payload |-> payload, now |-> now,
                   existing |->
                       IF \E r \in cv_documents :
                              r.content_hash = payload.content_hash
                       THEN CvRowOf(cv_documents, payload.content_hash).id
                       ELSE 0]]
        /\ clock' = now
        /\ UNCHANGED <<cv_documents, last>>
        /\ RaceFrame

\* Lines 86-133: the UPDATE of the row that was read, or the INSERT when none
\* was.  The statement opens the transaction and takes the write lock; what
\* it writes is the caller's until the commit.
WriteRow(c) ==
    LET call == upserting[c]
    IN  /\ call.pc = "selected"
        /\ ~Locked
        /\ IF call.existing # 0
           THEN /\ upserting' =
                     [upserting EXCEPT ![c] =
                         [call EXCEPT !.pc = "written"] @@
                         [rows |-> UpdateCvRow(cv_documents, call.existing,
                                               call.payload, call.now)]]
                /\ UNCHANGED last
           ELSE IF UniqueViolated(cv_documents, call.payload)
           THEN UpsertRaises(c, "IntegrityError")
           ELSE /\ upserting' =
                     [upserting EXCEPT ![c] =
                         [call EXCEPT !.pc = "written"] @@
                         [rows |-> InsertCvRow(cv_documents, call.payload,
                                               call.now)]]
                /\ UNCHANGED last
        /\ UNCHANGED <<cv_documents, clock>>
        /\ RaceFrame

\* The database stays locked by the other caller for longer than the busy
\* timeout of the connection: the statement raises an OperationalError.
WriteTimesOut(c) ==
    /\ upserting[c].pc = "selected"
    /\ Locked
    /\ UpsertRaises(c, "OperationalError")
    /\ UNCHANGED <<cv_documents, clock>>
    /\ RaceFrame

\* Lines 108-110 and 134-137: the row is read back and the `with` block
\* commits.
CommitRow(c) ==
    /\ upserting[c].pc = "written"
    /\ cv_documents' = upserting[c].rows
    /\ upserting' = [upserting EXCEPT ![c] = [pc |-> "idle"]]
    /\ last' = [op |-> "upsert_cv_document", caller |-> c, raised |-> "no",
                content_hash |-> upserting[c].payload.content_hash]
    /\ UNCHANGED clock
    /\ RaceFrame

NextRace ==
    \E c \in Callers :
        \/ SelectExisting(c)
        \/ WriteRow(c)
        \/ WriteTimesOut(c)
        \/ CommitRow(c)

SpecRace == Init /\ [][NextRace]_vars

(* -------------------------------- SpecMatch: the rows of the match runs *)

\* json.dumps(value, ensure_ascii=False) of the skills of a result or of its
\* justification: the text, named by the value it is the text of (json.dumps is
\* injective on these).
JsonDumps(value) == [text_of |-> value]

\* LocalDatabase.create_match_run: the table after the call.  The id
\* returned is the id of the row inserted; no match_runs row is ever deleted.
create_match_run(rows, tender_id, report_path, now) ==
    rows \cup {[id |-> NextId(rows), tender_id |-> tender_id,
                report_path |-> report_path, created_at |-> now]}

\* The rows store_match_results inserts, one per result and in their order:
\* AUTOINCREMENT gives each the id after the largest ever given out.  The
\* utc_now() readings of one call are taken to be one second.
InsertedResults(run_id, results, seq, now) ==
    {[id |-> seq + i, run_id |-> run_id, cv_id |-> results[i].cv_id,
      lexical_score |-> results[i].lexical_score,
      semantic_score |-> results[i].semantic_score,
      final_score |-> results[i].score,
      matched_skills_json |-> JsonDumps(results[i].matched_skills),
      missing_skills_json |-> JsonDumps(results[i].missing_skills),
      justification_json |-> JsonDumps(results[i].justification),
      created_at |-> now] : i \in DOMAIN results}

\* store_match_results without its DELETE: the results are added to the rows
\* of the run.
StoreAppending(rows, run_id, results, seq, now) ==
    rows \cup InsertedResults(run_id, results, seq, now)

\* store_match_results with a DELETE that has no WHERE clause.
StoreDeletingAll(rows, run_id, results, seq, now) ==
    InsertedResults(run_id, results, seq, now)

\* LocalDatabase.store_match_results: the table after the call, which is one
\* transaction (DELETE ... WHERE run_id = ?, then one INSERT per result).
store_match_results(rows, run_id, results, seq, now) ==
    {r \in rows : r.run_id # run_id}
        \cup InsertedResults(run_id, results, seq, now)

\* An entry of a ranking, as search_candidates builds it.
Ranked(cv_id, lexical_score, semantic_score, matched_skills, missing_skills) ==
    [cv_id |-> cv_id, candidate_name |-> "Ana Diaz",
     score |-> FinalScore(lexical_score, semantic_score, FALSE),
     semantic_score |-> semantic_score, lexical_score |-> lexical_score,
     matched_skills |-> matched_skills, missing_skills |-> missing_skills,
     justification |-> build_justification(matched_skills, missing_skills,
                                           {}, {}, 0)]

\* The rankings process_pipeline stores: of no candidate, of one, of two.
MatchRankings ==
    LET high == Ranked(1, 8500, 6667, {"python", "sql"}, {})
        low == Ranked(2, 4450, 0, {"python"}, {"sql"})
        mid == Ranked(2, 6250, 10000, {"sql"}, {"python"})
    IN  {<<>>, <<high>>, <<high, low>>, <<mid, high>>}

\* db.create_match_run(tender_id, report_path)
CreateMatchRun ==
    \E tender_id \in {1} : \E now \in Nows(clock) :
        /\ Cardinality(match_runs) < MaxRuns
        /\ match_runs' = create_match_run(match_runs, tender_id, "report.pdf", now)
        /\ clock' = now
        /\ last' = [op |-> "create_match_run", run_id |-> NextId(match_runs)]
        /\ UNCHANGED <<cv_documents, tender_documents, parsed_cvs,
                       parsed_tenders, collection, ranking, scoring,
                       match_results, sqlite_sequence, running>>

\* db.store_match_results(run_id, results) for a run that was created.
StoreMatchResults ==
    \E run \in match_runs : \E results \in MatchRankings :
    \E now \in Nows(clock) :
        /\ sqlite_sequence + Len(results) <= MaxResultId
        /\ match_results' =
              store_match_results(match_results, run.id, results,
                                  sqlite_sequence, now)
        /\ sqlite_sequence' = sqlite_sequence + Len(results)
        /\ clock' = now
        /\ last' = [op |-> "store_match_results", run_id |-> run.id,
                    results |-> results,
                    replaced |-> {r \in match_results : r.run_id = run.id}]
        /\ UNCHANGED <<cv_documents, tender_documents, parsed_cvs,
                       parsed_tenders, collection, ranking, scoring,
                       match_runs, running>>

NextMatch == CreateMatchRun \/ StoreMatchResults

SpecMatch == Init /\ [][NextMatch]_vars

(* ------------------------------------------------ SpecScore: the scorer *)

\* Well-formed profiles: skills and languages from the catalogs, experience
\* from 0 to MaxYears, an education level of the enumeration.  A requirement
\* of 7 years gives sums that are no multiple of a hundredth.
ScoreSkills == {"python", "sql"}

RequirementProfile(skills, languages, years, level) ==
    [NoTender EXCEPT
       !.required_skills = JList(skills), !.languages = JList(languages),
       !.experience_level = JInt(years), !.education_level = JStr(level)]

CandidateProfile(skills, languages, years, level) ==
    [parse_cv_text("", "") EXCEPT
       !.technical_skills = skills, !.languages = languages,
       !.experience_years = years, !.education_level = level]

RequirementProfiles ==
    {RequirementProfile(s, l, y, e) :
        s \in {<<>>, <<"python">>, <<"python", "sql">>},
        l \in {<<>>, <<"English">>, <<"English", "French">>},
        y \in (0..MaxYears) \cup {7},
        e \in {"", "bachelor", "phd"}}

CandidateProfiles ==
    {CandidateProfile(s, l, y, e) :
        s \in SUBSET ScoreSkills,
        l \in {<<>>, <<"English">>},
        y \in 0..MaxYears,
        e \in {"", "master"}}

ScoreDistances ==
    {NoDistance} \cup {Distance(d) : d \in {-5000, 0, 33333, 100000, 120000}}

\* Two candidates are scored against one requirement: cv_b is cv_a with
\* possibly more skills.
InitScore ==
    /\ EmptyWorld
    /\ scoring \in
         {[phase |-> "input", tender_json |-> t, cv_a |-> a,
           cv_b |-> [a EXCEPT !.technical_skills = @ \cup more],
           distance |-> NoDistance, lexical_a |-> 0, lexical_b |-> 0,
           semantic_score |-> 0, score |-> 0] :
            t \in RequirementProfiles, a \in CandidateProfiles,
            more \in SUBSET ScoreSkills}

\* The scores of one pass of the loop of search_candidates (lines 310-312).
ScoreCandidates ==
    /\ scoring.phase = "input"
    /\ \E distance \in ScoreDistances : \E up \in BOOLEAN :
        LET lexical_a ==
                compute_lexical_score(scoring.tender_json, scoring.cv_a).lexical_score
            lexical_b ==
                compute_lexical_score(scoring.tender_json, scoring.cv_b).lexical_score
            semantic_score == semantic_distance_to_score(distance)
        IN  scoring' = [scoring EXCEPT
                          !.phase = "scored", !.distance = distance,
                          !.lexical_a = lexical_a, !.lexical_b = lexical_b,
                          !.semantic_score = semantic_score,
                          !.score = FinalScore(lexical_a, semantic_score, up)]
    /\ UNCHANGED <<cv_documents, tender_documents, parsed_cvs, parsed_tenders,
                   collection, clock, last, ranking, matching, running>>

NextScore == ScoreCandidates

SpecScore == InitScore /\ [][NextScore]_vars

(* ------------------------------------------------------------- claims *)

\* A completed call of ingest_cv_file on bytes that were already stored.
ReIngested(l) == l.op = "ingest_cv" /\ ~l.raised /\ l.existed

\* A row without the time of its last write.
RowContent(r) == [r EXCEPT !.updated_at = 0]

\* The rows of one content hash.
RowsOf(rows, content_hash) == {r \in rows : r.content_hash = content_hash}

SameIngestionAgain ==
    /\ last.op = "ingest_cv" /\ ~last.raised
    /\ last'.op = "ingest_cv" /\ ~last'.raised
    /\ last'.file = last.file
    /\ last'.cv_payload = last.cv_payload
    /\ (last'.oracle = "payload") = (last.oracle = "payload")

MergedCv(file, payload, oracle) ==
    MergeCv(parse_cv_text(extract_text(file), file.name),
            [kind |-> IF oracle = "payload" THEN "payload" ELSE "absent",
             payload |-> payload]).cv

\* C3: at any time cv_documents holds at most one row per content hash, and
\* a re-ingestion of a stored content hash keeps the id, the content_hash and
\* the created_at of its row and overwrites the other fields with the values
\* of the new call.
C3_OneRowPerFingerprint ==
    [][/\ \A r1 \in cv_documents' : \A r2 \in cv_documents' :
             r1.content_hash = r2.content_hash => r1 = r2
       /\ ReIngested(last') =>
            LET h == file_sha256(last'.file)
                old == CvRowOf(cv_documents, h)
                new == CvRowOf(cv_documents', h)
                cv_json == MergedCv(last'.file, last'.cv_payload, last'.oracle)
            IN  /\ new.id = old.id
                /\ new.content_hash = old.content_hash
                /\ new.created_at = old.created_at
                /\ new.source_name = last'.file.name
                /\ new.file_path = last'.file.name
                /\ new.json_path = <<slugify(Stem(last'.file.name)), h>>
                /\ new.full_name = cv_json.full_name.s
                /\ new.email = cv_json.email.s
                /\ new.phone = cv_json.phone.s
                /\ new.experience_years = cv_json.experience_years
                /\ new.education_level = cv_json.education_level
                /\ new.search_text[3] = cv_json.technical_skills
                /\ new.updated_at = clock'
                /\ cv_documents' \ {new} = cv_documents \ {old}]_vars

\* Stored bytes were ingested again under another file name and with an
\* enrichment payload, while another content hash is stored too.
C3_Witness ==
    /\ ReIngested(last)
    /\ Cardinality(cv_documents) = 2
    /\ last.file = [name |-> "bob.txt", bytes |-> "pdfA"]
    /\ last.oracle = "payload"
    /\ \E r \in cv_documents :
          /\ r.id = last.id /\ r.id = 1
          /\ r.source_name = "bob.txt"
          /\ r.created_at < r.updated_at

\* C2 as the specification states it: ingesting byte-identical requirement
\* content a second time is a no-op: it returns the row of the first
\* ingestion, adds no second row, and overwrites no field and no artifact.
C2_ReIngestIsNoOp ==
    [][(last'.op = "ingest_tender" /\ ~last'.raised /\ last'.existed) =>
          LET h == file_sha256(last'.file)
          IN  /\ tender_documents' = tender_documents
              /\ last'.id = TenderRowOf(tender_documents, h).id
              /\ parsed_tenders' = parsed_tenders]_vars

\* The path of the parsed JSON of a file.
JsonPath(file) == <<slugify(Stem(file.name)), file_sha256(file)>>

\* C4: a failure of the enrichment oracle (an exception or an unparseable
\* response of a provider, with no provider giving a payload) never leaves
\* ingest_cv_file or ingest_tender_file as an exception, and what the call
\* persists is exactly the heuristic profile of the file.
C4_OracleFailureIsAbsent ==
    /\ (last.op = "ingest_cv" /\ last.oracle = "failed") =>
          LET cv_json == parse_cv_text(extract_text(last.file), last.file.name)
              row == CvRowOf(cv_documents, file_sha256(last.file))
          IN  /\ ~last.raised
              /\ parsed_cvs[JsonPath(last.file)] = cv_json
              /\ row.id = last.id
              /\ row.full_name = cv_json.full_name.s
              /\ row.email = cv_json.email.s
              /\ row.phone = cv_json.phone.s
              /\ row.experience_years = cv_json.experience_years
              /\ row.education_level = cv_json.education_level
              /\ row.search_text
                    = build_cv_search_text(cv_json, extract_text(last.file))
              /\ collection[row.id].document = row.search_text
    /\ (last.op = "ingest_tender" /\ last.oracle = "failed") =>
          LET tender_json ==
                  parse_tender_text(extract_text(last.file), last.file.name)
              row == TenderRowOf(tender_documents, file_sha256(last.file))
          IN  /\ ~last.raised
              /\ parsed_tenders[JsonPath(last.file)] = tender_json
              /\ row.id = last.id
              /\ ~last.existed =>
                    /\ row.title = tender_json.title.s
                    /\ row.required_skills_json = tender_json.required_skills

\* A candidate file was ingested while both providers raised, and its row is
\* stored with the skills the heuristics found.
C4_Witness ==
    /\ last.op = "ingest_cv" /\ last.oracle = "failed" /\ ~last.raised
    /\ \E r \in cv_documents :
          /\ r.id = last.id
          /\ parsed_cvs[r.json_path].technical_skills = {"python"}

\* A field of an enrichment payload that is neither absent nor of the type
\* the merge expects.
Malformed(value, type) == value.t \notin {"null", type}

\* C5 as the specification states it: a malformed enrichment payload (a
\* missing key, a wrong type, a top level that is not an object) never raises
\* out of an ingestion, and each malformed field keeps its heuristic value.
C5_MalformedIsAbsent ==
    /\ last.op \in {"ingest_cv", "ingest_tender"} => ~last.raised
    /\ (last.op = "ingest_cv" /\ last.oracle = "payload") =>
          LET heuristic == parse_cv_text(extract_text(last.file), last.file.name)
              stored == parsed_cvs[JsonPath(last.file)]
              enriched == last.cv_payload
          IN  /\ Malformed(enriched.full_name, "str")
                    => stored.full_name = heuristic.full_name
              /\ Malformed(enriched.email, "str")
                    => stored.email = heuristic.email
              /\ Malformed(enriched.technical_skills, "list")
                    => stored.technical_skills = heuristic.technical_skills
              /\ Malformed(enriched.experience_years, "int")
                    => stored.experience_years = heuristic.experience_years

\* The file of a bank under one of its names.
BankFile(bank, name) == [name |-> name, bytes |-> bank[name]]

\* C6 as the specification states it: in a batch (sync_cv_bank over the bank
\* directory) a file whose text extraction fails is fatal to that file only:
\* every other file of the batch is still ingested.
C6_ExtractionFailureIsLocal ==
    last.op = "sync_cv_bank" =>
        \A name \in DOMAIN last.bank :
            ~ExtractRaises(BankFile(last.bank, name)) =>
                \E r \in cv_documents :
                    r.content_hash = file_sha256(BankFile(last.bank, name))

\* C7 as the specification states it: a failure of the similarity index
\* (its count or its query raising) is never fatal to search_candidates: the
\* ranking is returned with one entry per stored candidate, each with the
\* semantic score 0.0.
C7_IndexFailureIsNotFatal ==
    (/\ last.op = "search_candidates"
     /\ last.index \in {"count_fails", "query_raises"}
     /\ last.explain # "nondict") =>
        /\ ~last.raised
        /\ {ranking[i].cv_id : i \in DOMAIN ranking} = {r.id : r \in cv_documents}
        /\ \A i \in DOMAIN ranking : ranking[i].semantic_score = 0

\* Scores are held in hundredths: 0..10000 is [0, 100].
InRange(score) == score >= 0 /\ score <= 10000

\* C8: for every well-formed requirement profile, candidate profile and
\* distance (an absent one included), the lexical score, the semantic score
\* and the final score lie in [0, 100].
C8_ScoresInRange ==
    scoring.phase = "scored" =>
        /\ InRange(scoring.lexical_a)
        /\ InRange(scoring.lexical_b)
        /\ InRange(scoring.semantic_score)
        /\ InRange(scoring.score)

\* Every requirement is met in full and the index gave a distance below 0:
\* the semantic score is 100 and the lexical score is its maximum, 85.
C8_Witness ==
    /\ scoring.phase = "scored"
    /\ ~scoring.distance.none /\ scoring.distance.d < 0
    /\ scoring.semantic_score = 10000
    /\ scoring.lexical_a = 8500
    /\ scoring.score = 9175

\* The required skills a candidate has.
Matched(tender_json, cv_json) ==
    Range(tender_json.required_skills.l) \cap cv_json.technical_skills

\* C9: for one requirement profile, when candidate B matches a superset of
\* the required skills that candidate A matches and the two are equal in
\* languages, experience years and education level, the lexical score of B
\* is at least that of A.
C9_MonotoneInMatchedSkills ==
    (/\ scoring.phase = "scored"
     /\ Matched(scoring.tender_json, scoring.cv_a)
            \subseteq Matched(scoring.tender_json, scoring.cv_b)
     /\ scoring.cv_a.languages = scoring.cv_b.languages
     /\ scoring.cv_a.experience_years = scoring.cv_b.experience_years
     /\ scoring.cv_a.education_level = scoring.cv_b.education_level) =>
        scoring.lexical_b >= scoring.lexical_a

\* Candidate B matches one required skill more than candidate A and has a
\* higher lexical score.
C9_Witness ==
    /\ scoring.phase = "scored"
    /\ Matched(scoring.tender_json, scoring.cv_a) = {"python"}
    /\ Matched(scoring.tender_json, scoring.cv_b) = {"python", "sql"}
    /\ scoring.lexical_b = scoring.lexical_a + 2250

\* The rank of an education level in the order bachelor < master < phd.
ReferenceRank(level) ==
    Cardinality({l \in {"bachelor", "master", "phd"} :
                    \/ l = level
                    \/ l = "bachelor" /\ level \in {"master", "phd"}
                    \/ l = "master" /\ level = "phd"})

\* The reference formula of the lexical score, in hundredths: the four
\* sub-scores over the common denominator r * l * e, then the nearest
\* hundredth of their sum.
ReferenceLexical(tender_json, cv_json) ==
    LET required == Range(tender_json.required_skills.l)
        wanted == {Lower(x) : x \in Range(tender_json.languages.l)}
        spoken == {Lower(x) : x \in Range(cv_json.languages)}
        needed == tender_json.experience_level.n
        years == cv_json.experience_years
        r == IF required = {} THEN 1 ELSE Cardinality(required)
        l == IF wanted = {} THEN 1 ELSE Cardinality(wanted)
        e == IF needed = 0 THEN 1 ELSE needed
        skills ==
            IF required = {} THEN 25
            ELSE 45 * Cardinality(required \cap cv_json.technical_skills)
        languages ==
            IF wanted = {} THEN 8 ELSE 15 * Cardinality(wanted \cap spoken)
        experience ==
            IF needed = 0 THEN 8
            ELSE IF years >= needed THEN 15 * needed ELSE 15 * years
        education ==
            IF ReferenceRank(tender_json.education_level.s) = 0 THEN 6
            ELSE IF ReferenceRank(cv_json.education_level)
                      >= ReferenceRank(tender_json.education_level.s)
            THEN 10 ELSE 4
        den == r * l * e
        num == 100 * (skills * l * e + languages * r * e + experience * r * l
                         + education * den)
        below == num \div den
    IN  IF 2 * (num - below * den) < den THEN below
        ELSE IF 2 * (num - below * den) > den THEN below + 1
        ELSE below + (below % 2)

\* The requirement and the candidate of the example of the specification.
ExampleTender == RequirementProfile(<<"python", "sql">>, <<>>, 3, "bachelor")
ExampleCv(languages) == CandidateProfile({"python"}, languages, 3, "master")

\* C10: compute_lexical_score returns, for every requirement and candidate,
\* the sum of the four sub-scores of the reference formula (rounded to two
\* decimals, as the formula states): skills matched/required * 45 or 25,
\* languages common/required * 15 or 8, experience min(candidate/required, 1)
\* * 15 or 8, education 10 or 4 or 6; required {python, sql}, 3 years,
\* bachelor against {python}, 3 years, master gives 55.5.
C10_LexicalIsReferenceSum ==
    scoring.phase = "scored" =>
        /\ scoring.lexical_a = ReferenceLexical(scoring.tender_json, scoring.cv_a)
        /\ scoring.lexical_b = ReferenceLexical(scoring.tender_json, scoring.cv_b)
        /\ (/\ scoring.tender_json = ExampleTender
            /\ \E languages \in {<<>>, <<"English">>} :
                  scoring.cv_a = ExampleCv(languages)) =>
              scoring.lexical_a = 5550

\* The example of the specification has been scored: 55.5.
C10_Witness ==
    /\ scoring.phase = "scored"
    /\ scoring.tender_json = ExampleTender
    /\ scoring.cv_a = ExampleCv(<<>>)
    /\ scoring.lexical_a = 5550

\* clamp(d, 0, 1) of a distance in hundred-thousandths.
Clamp(d) == IF d <= 0 THEN 0 ELSE IF d >= 100000 THEN 100000 ELSE d

\* C11: semantic_distance_to_score maps an absent distance to exactly 0.0
\* and a supplied distance d to (1 - clamp(d, 0, 1)) * 100, to the nearest
\* hundredth: 0.0 gives 100.0, 1.0 gives 0.0, a distance below 0 gives 100.0
\* and one above 1 gives 0.0.
C11_SemanticTransform ==
    scoring.phase = "scored" =>
        LET d == scoring.distance.d
            error == 10 * scoring.semantic_score - (100000 - Clamp(d))
        IN  /\ scoring.distance.none => scoring.semantic_score = 0
            /\ ~scoring.distance.none =>
                  /\ error >= -5 /\ error <= 5
                  /\ d <= 0 => scoring.semantic_score = 10000
                  /\ d >= 100000 => scoring.semantic_score = 0

\* The distance 0.33333 has been scored: 66.67.
C11_Witness ==
    /\ scoring.phase = "scored"
    /\ ~scoring.distance.none
    /\ scoring.distance.d = 33333
    /\ scoring.semantic_score = 6667

\* C12: the final score of every ranking entry is lexical_score * 0.55 +
\* semantic_score * 0.45 rounded to 2 decimals (within half a hundredth of
\* the weighted sum), with the same weights for every candidate and run.
C12_FinalScoreFormula ==
    \A i \in DOMAIN ranking :
        LET error == 100 * ranking[i].score
                        - (55 * ranking[i].lexical_score
                              + 45 * ranking[i].semantic_score)
        IN  error >= -50 /\ error <= 50

\* A ranking of two candidates whose lexical and semantic scores differ.
C12_Witness ==
    /\ last.op = "search_candidates" /\ ~last.raised
    /\ Len(ranking) = 2
    /\ \E i \in DOMAIN ranking :
          /\ ranking[i].lexical_score = 4450
          /\ ranking[i].semantic_score = 6667
          /\ ranking[i].score = 5448

\* The row of an id, and the order in which the store returns two rows:
\* ORDER BY updated_at DESC, id DESC.
RowOfId(id) == CHOOSE r \in cv_documents : r.id = id
StoredBefore(a, b) ==
    \/ a.updated_at > b.updated_at
    \/ a.updated_at = b.updated_at /\ a.id > b.id

\* C13: the list search_candidates returns is ordered by non-increasing final
\* score, and two candidates of equal final score stand in the order in
\* which the store returned them.
C13_SortedAndStable ==
    (last.op = "search_candidates" /\ ~last.raised) =>
        \A i \in DOMAIN ranking : \A j \in DOMAIN ranking :
            i < j =>
                /\ ranking[i].score >= ranking[j].score
                /\ ranking[i].score = ranking[j].score =>
                      StoredBefore(RowOfId(ranking[i].cv_id),
                                   RowOfId(ranking[j].cv_id))

\* Two candidates of equal final score were ranked; the one ingested first
\* was written again later, and so is listed first.
C13_Witness ==
    /\ last.op = "search_candidates" /\ ~last.raised
    /\ Len(ranking) = 2
    /\ ranking[1].score = ranking[2].score
    /\ ranking[1].cv_id = 1 /\ ranking[2].cv_id = 2
    /\ RowOfId(1).updated_at > RowOfId(2).updated_at

\* C14: search_candidates returns exactly one ranking entry per persisted
\* candidate: a candidate the similarity index does not return is kept, with
\* the semantic score 0.0, and an empty catalog gives an empty list and no
\* exception.
C14_OneEntryPerCandidate ==
    /\ (last.op = "search_candidates" /\ ~last.raised) =>
          /\ Len(ranking) = Cardinality(cv_documents)
          /\ {ranking[i].cv_id : i \in DOMAIN ranking}
                = {r.id : r \in cv_documents}
          /\ last.index = "count_fails" =>
                \A i \in DOMAIN ranking : ranking[i].semantic_score = 0
    /\ (last.op = "search_candidates" /\ cv_documents = {}) =>
          ~last.raised /\ ranking = <<>>

\* Two candidates are stored and the index returned neither: both are in the
\* ranking, with the semantic score 0.0.
C14_Witness ==
    /\ last.op = "search_candidates" /\ ~last.raised
    /\ last.index = "count_fails"
    /\ Cardinality(cv_documents) = 2
    /\ Len(ranking) = 2
    /\ ranking[1].semantic_score = 0 /\ ranking[2].semantic_score = 0
    /\ ranking[1].score > ranking[2].score

\* An enrichment payload that holds technical_skills, a list, and no other
\* key.
OnlyTechnicalSkills(payload) ==
    /\ payload.technical_skills.t = "list"
    /\ [payload EXCEPT !.technical_skills = JNull] = NoCvFields

\* C15: when the enrichment payload of a candidate holds only
\* technical_skills, the technical_skills of the merged profile are the
\* heuristic skills united with the trimmed, lower-cased enrichment skills,
\* and every other field keeps its heuristic value.
C15_SkillsAreUnited ==
    (/\ last.op = "ingest_cv" /\ last.oracle = "payload"
     /\ OnlyTechnicalSkills(last.cv_payload)) =>
        LET heuristic == parse_cv_text(extract_text(last.file), last.file.name)
            items == last.cv_payload.technical_skills.l
            added == {Lower(Strip(items[i])) : i \in DOMAIN items} \ {""}
        IN  /\ ~last.raised
            /\ parsed_cvs[JsonPath(last.file)]
                  = [heuristic EXCEPT !.technical_skills = @ \cup added]

\* The oracle answered [" Go ", "python", " "] alone: go joins the heuristic
\* skill python.
C15_Witness ==
    /\ last.op = "ingest_cv" /\ ~last.raised
    /\ last.oracle = "payload" /\ last.cv_payload = CvSkillsUntrimmed
    /\ parsed_cvs[JsonPath(last.file)].technical_skills = {"go", "python"}
    /\ parsed_cvs[JsonPath(last.file)].full_name = JStr("Ana Silva")

\* The value the specification gives a merged scalar field: the enrichment
\* string when it is not empty, the heuristic value otherwise.
MergedScalar(enriched, heuristic) ==
    IF enriched.t = "str" /\ enriched.s # "" THEN enriched ELSE heuristic

\* C16: for each scalar identity field (candidate name, email, phone,
\* summary; requirement title, summary) the merged value is the enrichment
\* value when that value is not empty and the heuristic value otherwise: an
\* empty or absent enrichment value never erases a heuristic value.
C16_ScalarsMerge ==
    /\ (last.op = "ingest_cv" /\ last.oracle = "payload" /\ ~last.raised) =>
          LET heuristic == parse_cv_text(extract_text(last.file), last.file.name)
              stored == parsed_cvs[JsonPath(last.file)]
          IN  \A f \in {"full_name", "email", "phone", "professional_summary"} :
                  last.cv_payload[f].t \in {"str", "null"} =>
                      stored[f] = MergedScalar(last.cv_payload[f], heuristic[f])
    /\ (last.op = "ingest_tender" /\ last.oracle = "payload" /\ ~last.raised) =>
          LET heuristic ==
                  parse_tender_text(extract_text(last.file), last.file.name)
              stored == parsed_tenders[JsonPath(last.file)]
          IN  \A f \in {"title", "summary"} :
                  last.tender_payload[f].t \in {"str", "null"} =>
                      stored[f] = MergedScalar(last.tender_payload[f], heuristic[f])

\* The oracle answered empty strings for name, email and summary and a
\* phone number: the heuristic name, email and summary stay, the phone is
\* the oracle's.
C16_Witness ==
    /\ last.op = "ingest_cv" /\ ~last.raised
    /\ last.oracle = "payload" /\ last.cv_payload = CvEmptyStrings
    /\ parsed_cvs[JsonPath(last.file)].full_name = JStr("Ana Silva")
    /\ parsed_cvs[JsonPath(last.file)].email = JStr("ana@x.io")
    /\ parsed_cvs[JsonPath(last.file)].professional_summary = JStr("sumA")
    /\ parsed_cvs[JsonPath(last.file)].phone = JStr("+33 1")

\* An enrichment payload that holds education_level or experience_years and
\* no other key.
OnlyMetadata(payload) ==
    [payload EXCEPT !.education_level = JNull, !.experience_years = JNull]
        = NoCvFields

\* C17 as the specification states it: in the candidate merge the
\* enrichment's education level or experience years replaces the heuristic
\* value only when it is present and well-typed (a string; a value that
\* parses as an integer); a malformed value is dropped without error and the
\* heuristic value is retained.
C17_MetadataMerge ==
    (/\ last.op = "ingest_cv" /\ last.oracle = "payload"
     /\ OnlyMetadata(last.cv_payload)) =>
        LET heuristic == parse_cv_text(extract_text(last.file), last.file.name)
            level == last.cv_payload.education_level
            years == last.cv_payload.experience_years
        IN  /\ ~last.raised
            /\ parsed_cvs[JsonPath(last.file)].education_level
                  = IF level.t = "str" /\ level.s # ""
                    THEN Lower(Strip(level.s))
                    ELSE heuristic.education_level
            /\ parsed_cvs[JsonPath(last.file)].experience_years
                  = IF years.t = "int" THEN years.n
                    ELSE IF years.t = "str" /\ years.s = "5" THEN 5
                    ELSE IF years.t = "str" /\ years.s = "7" THEN 7
                    ELSE heuristic.experience_years

\* C18 as the specification states it: every candidate profile that
\* ingest_cv_file persists, whatever the enrichment oracle returned, has
\* experience_years an integer >= 0 and education_level one of "", bachelor,
\* master, phd, in the parsed JSON as in the row.
C18_MetadataWellFormed ==
    /\ \A path \in DOMAIN parsed_cvs :
          /\ parsed_cvs[path].experience_years >= 0
          /\ parsed_cvs[path].education_level \in {"", "bachelor", "master", "phd"}
    /\ \A r \in cv_documents :
          /\ r.experience_years >= 0
          /\ r.education_level \in {"", "bachelor", "master", "phd"}

\* A requirement value that is not empty and not zero.
NonEmpty(value) ==
    \/ value.t = "list" /\ Len(value.l) > 0
    \/ value.t = "int" /\ value.n # 0
    \/ value.t = "str" /\ value.s # ""

\* C19: in the requirement merge each of required skills, preferred skills,
\* languages, experience level and education level takes the enrichment
\* value only when that value is non-empty / non-zero, and keeps the
\* heuristic value otherwise.
C19_RequirementMerge ==
    (last.op = "ingest_tender" /\ last.oracle = "payload" /\ ~last.raised) =>
        LET heuristic == parse_tender_text(extract_text(last.file), last.file.name)
            stored == parsed_tenders[JsonPath(last.file)]
        IN  \A f \in {"required_skills", "preferred_skills", "languages",
                      "experience_level", "education_level"} :
                stored[f] = IF NonEmpty(last.tender_payload[f])
                            THEN last.tender_payload[f]
                            ELSE heuristic[f]

\* The oracle answered an empty list of required skills and 0 years with a
\* summary: the heuristic skills python and sql stay.
C19_Witness ==
    /\ last.op = "ingest_tender" /\ ~last.raised
    /\ last.oracle = "payload" /\ last.tender_payload = TenderZeros
    /\ parsed_tenders[JsonPath(last.file)].required_skills
          = JList(<<"python", "sql">>)
    /\ parsed_tenders[JsonPath(last.file)].summary = JStr("tsumLLM")

\* A provider that raised or gave an empty result (None when it is not
\* configured, an empty document).
GaveNothing(outcome) == outcome.kind \in {"raise", "empty", "off"}

\* C20: one enrichment request tries at most two providers, in a fixed
\* order, each at most once: the second is called only if the first raised
\* or returned an empty result, the first non-empty result is returned, and
\* the result is absent if both fail or return empty.
C20_ProviderOrder ==
    last.op \in {"enrich_cv", "enrich_tender"} =>
        /\ last.calls \in {<<"gemini">>, <<"gemini", "openrouter">>}
        /\ Len(last.calls) = 2 => GaveNothing(last.gemini)
        /\ ~GaveNothing(last.gemini) =>
              last.kind = "payload" /\ last.payload = last.gemini.payload
        /\ (GaveNothing(last.gemini) /\ ~GaveNothing(last.openrouter)) =>
              last.kind = "payload" /\ last.payload = last.openrouter.payload
        /\ (GaveNothing(last.gemini) /\ GaveNothing(last.openrouter)) =>
              last.kind = "absent"

\* The first provider raised and the second answered: both were called, in
\* order, and the second's payload is the result.
C20_Witness ==
    /\ last.op = "enrich_cv"
    /\ last.gemini.kind = "raise"
    /\ last.openrouter.kind = "payload" /\ last.openrouter.payload = CvFull
    /\ last.calls = <<"gemini", "openrouter">>
    /\ last.kind = "payload" /\ last.payload = CvFull

\* The rows of a run in the order of their ids, which is the order they
\* were inserted in.
RECURSIVE RowsById(_)
RowsById(rows) ==
    IF rows = {} THEN <<>>
    ELSE LET first == CHOOSE r \in rows : \A x \in rows : r.id <= x.id
         IN  <<first>> \o RowsById(rows \ {first})

\* What a match_results row says of a result, and what a result has for it.
StoredResult(r) ==
    [cv_id |-> r.cv_id, lexical_score |-> r.lexical_score,
     semantic_score |-> r.semantic_score, score |-> r.final_score,
     matched_skills |-> r.matched_skills_json.text_of,
     missing_skills |-> r.missing_skills_json.text_of,
     justification |-> r.justification_json.text_of]
GivenResult(e) ==
    [cv_id |-> e.cv_id, lexical_score |-> e.lexical_score,
     semantic_score |-> e.semantic_score, score |-> e.score,
     matched_skills |-> e.matched_skills,
     missing_skills |-> e.missing_skills,
     justification |-> e.justification]

\* C21: after store_match_results(run_id, results) the match_results rows of
\* run_id are exactly the given results, whatever rows the run had before,
\* and the rows of every other run are unchanged.
C21_RunRowsReplaced ==
    [][last'.op = "store_match_results" =>
        LET run_id == last'.run_id
            results == last'.results
            stored == RowsById({r \in match_results' : r.run_id = run_id})
        IN  /\ [i \in DOMAIN stored |-> StoredResult(stored[i])]
                  = [i \in DOMAIN results |-> GivenResult(results[i])]
            /\ {r \in match_results' : r.run_id # run_id}
                  = {r \in match_results : r.run_id # run_id}]_vars

\* A run that had one row is stored again with two results while another run
\* has rows of its own: the run has those two rows and the other keeps its own.
C21_Witness ==
    /\ last.op = "store_match_results"
    /\ Cardinality(last.replaced) = 1
    /\ Len(last.results) = 2
    /\ Cardinality({r \in match_results : r.run_id = last.run_id}) = 2
    /\ \E r \in match_results : r.run_id # last.run_id
    /\ last.replaced \cap match_results = {}

\* A retry of an ingestion that raised has completed, and no later call has
\* started.
RetryCompleted ==
    /\ ingesting = NoIngestion
    /\ last.op = "ingest_cv" /\ ~last.raised /\ last.retry

\* The state a single call of ingest_cv_file leaves, made at `now` in the
\* state the first attempt found, with the oracle answering as `run`.
SingleIngestion(run, now) == ingest_cv_file(last.base, last.file, run, now).w

\* A row without the time it was created at.
WithoutCreatedAt(r) == [r EXCEPT !.created_at = 0]

C23_StoreAndIndexAgree ==
    ingesting.pc \in {"idle", "failed"} =>
        /\ {r.id : r \in cv_documents} = DOMAIN collection
        /\ Cardinality(DOMAIN collection) = Cardinality(cv_documents)

\* No two rows of a table have the same content hash.
OneRowPerHash(rows) ==
    \A a \in rows : \A b \in rows : a.content_hash = b.content_hash => a = b

\* C24: under any interleaving of two upsert_cv_document calls (each a read
\* of the existing row followed by an update or an insert), cv_documents
\* never holds two rows of one content hash, neither committed nor in the
\* transaction of a caller.
C24_NoDuplicateUnderRace ==
    /\ OneRowPerHash(cv_documents)
    /\ \A c \in Callers :
          upserting[c].pc = "written" => OneRowPerHash(upserting[c].rows)

\* Both callers read that the table has no row of the content hash; one has
\* inserted and committed, and the INSERT of the other has been refused: the
\* table holds the one row.
C24_Witness ==
    /\ last.op = "upsert_cv_document"
    /\ last.raised = "IntegrityError"
    /\ Cardinality(RowsOf(cv_documents, last.content_hash)) = 1
    /\ \A c \in Callers : upserting[c].pc = "idle"

====
